---- MODULE Spec2Model ----
(***************************************************************************)
(* A model of py-trello (src/trello/__init__.py): the TrelloClient         *)
(* transport (construction, build_url, fetch_json) and the Board, List,    *)
(* Card and Member entities that hydrate themselves through it.            *)
(*                                                                         *)
(* Python strings are sequences of one-character strings.  A Python value  *)
(* is a record [ty, s]: ty is the Python type and s the characters (the    *)
(* text of a str/unicode, the printed form of anything else).  "absent"    *)
(* marks an attribute that was never assigned and a JSON key that is       *)
(* missing from a response.  The code is Python 2: json.loads yields       *)
(* unicode strings, source literals are byte strings (str).                *)
(***************************************************************************)
EXTENDS Integers, Sequences, FiniteSets

VARIABLES
    client,           \* the TrelloClient object: the attributes __init__ assigned
    default_headers,  \* the one dict object bound to fetch_json's `headers = {}` default
    ent,              \* the entity object the caller currently holds
    last              \* the last call: its arguments, the requests it issued, its outcome

vars == <<client, default_headers, ent, last>>

----------------------------------------------------------------------------
(* Bounds of the model *)

\* the most keys a response object may lack
MaxMissing == 1

----------------------------------------------------------------------------
(* Python values *)

Absent == [ty |-> "absent", s |-> <<>>]
PyNone == [ty |-> "NoneType", s |-> <<"N", "o", "n", "e">>]
PyTrue == [ty |-> "bool", s |-> <<"T", "r", "u", "e">>]
PyFalse == [ty |-> "bool", s |-> <<"F", "a", "l", "s", "e">>]
PyStr(s) == [ty |-> "str", s |-> s]
PyUnicode(s) == [ty |-> "unicode", s |-> s]
PyList(s) == [ty |-> "list", s |-> s]
PyDict(s) == [ty |-> "dict", s |-> s]
PyInt(s) == [ty |-> "int", s |-> s]

IsString(v) == v.ty \in {"str", "unicode"}

\* Python truthiness, as `if api_key and ...` evaluates it
Truthy(v) ==
    CASE v.ty = "NoneType" -> FALSE
      [] v.ty = "absent" -> FALSE
      [] v.ty = "bool" -> v = PyTrue
      [] OTHER -> Len(v.s) > 0

\* the code point U+00E9 and the two bytes of its UTF-8 encoding
EAcute == "U+00E9"
NonAscii == {EAcute, "0xC3", "0xA9"}
IsAscii(s) == \A i \in 1..Len(s) : s[i] \notin NonAscii

RECURSIVE Utf8(_)
Utf8(s) ==
    IF s = <<>> THEN <<>>
    ELSE (IF Head(s) = EAcute THEN <<"0xC3", "0xA9">> ELSE <<Head(s)>>) \o Utf8(Tail(s))

AttributeError == [type |-> "AttributeError", msg |-> <<>>, status |-> 0]
TypeError == [type |-> "TypeError", msg |-> <<>>, status |-> 0]
KeyError == [type |-> "KeyError", msg |-> <<>>, status |-> 0]
IndexError == [type |-> "IndexError", msg |-> <<>>, status |-> 0]
ValueError == [type |-> "ValueError", msg |-> <<>>, status |-> 0]
UnicodeError == [type |-> "UnicodeDecodeError", msg |-> <<>>, status |-> 0]
NoExc == [type |-> "", msg |-> <<>>, status |-> 0]

\* x.encode('utf-8') of Python 2: a unicode is encoded; a str is first decoded
\* as ASCII, which fails on a non-ASCII byte; other types have no encode
encode_utf8(v) ==
    CASE v.ty = "unicode" -> [exc |-> NoExc, val |-> PyStr(Utf8(v.s))]
      [] v.ty = "str" -> IF IsAscii(v.s) THEN [exc |-> NoExc, val |-> v]
                         ELSE [exc |-> UnicodeError, val |-> Absent]
      [] OTHER -> [exc |-> AttributeError, val |-> Absent]

\* a == b of Python 2: a str and a unicode are equal when the ASCII decoding of
\* the str is the unicode; a str with a non-ASCII byte equals no unicode
PyEq(a, b) ==
    \/ a = b
    \/ /\ IsString(a) /\ IsString(b)
       /\ a.s = b.s
       /\ IsAscii(a.s)

----------------------------------------------------------------------------
(* Exceptions *)

\* ResourceUnavailable.__init__(self, msg, http_response), which Unauthorized
\* inherits: `args` are the arguments of the raise site
ResourceUnavailable_init(cls, args) ==
    IF Len(args) /= 2 THEN TypeError
    ELSE [type |-> cls, msg |-> args[1], status |-> args[2].status]

ResourceUnavailable(args) == ResourceUnavailable_init("ResourceUnavailable", args)
Unauthorized(args) == ResourceUnavailable_init("Unauthorized", args)

----------------------------------------------------------------------------
(* TrelloClient *)

\* a decoded JSON document: an object (one item) or an array of objects
NoContent == [kind |-> "none", items |-> <<>>]

\* a response body that is not JSON text
Malformed == [kind |-> "malformed", items |-> <<>>]

\* json.loads of a response body: [exc, val].  A body that is JSON text is held
\* in decoded form; any other body makes json.loads raise ValueError
json_loads(content) ==
    IF content.kind \in {"object", "array"} THEN [exc |-> NoExc, val |-> content]
    ELSE [exc |-> ValueError, val |-> NoContent]

NoKeyPair == [key |-> Absent, secret |-> Absent]

NotConstructed ==
    [attrs |-> {}, api_key |-> Absent, auth_token |-> Absent,
     oauth_consumer |-> NoKeyPair, oauth_token |-> NoKeyPair, client |-> "absent"]

hasattr(self, name) == name \in self.attrs

TrelloClient_init(api_key, token, api_secret, token_secret) ==
    IF Truthy(api_key) /\ Truthy(api_secret) /\ Truthy(token) /\ Truthy(token_secret)
    THEN [attrs |-> {"oauth_consumer", "oauth_token", "client", "api_key", "auth_token"},
          oauth_consumer |-> [key |-> api_key, secret |-> api_secret],
          oauth_token |-> [key |-> token, secret |-> token_secret],
          client |-> "oauth.Client",
          api_key |-> api_key, auth_token |-> token]
    ELSE IF Truthy(api_key) /\ Truthy(token)
    THEN [attrs |-> {"client", "api_key", "auth_token"},
          oauth_consumer |-> NoKeyPair, oauth_token |-> NoKeyPair,
          client |-> "Http",
          api_key |-> api_key, auth_token |-> token]
    ELSE [attrs |-> {"api_key", "auth_token"},
          oauth_consumer |-> NoKeyPair, oauth_token |-> NoKeyPair,
          client |-> "absent",
          api_key |-> api_key, auth_token |-> token]

\* str(v) as urlencode applies it to keys and values
PyStrOf(v) == v.s

Unreserved ==
    {"a", "b", "c", "d", "e", "f", "g", "h", "i", "j", "k", "l", "m", "n", "o", "p",
     "q", "r", "s", "t", "u", "v", "w", "x", "y", "z",
     "A", "B", "C", "D", "E", "F", "G", "H", "I", "J", "K", "L", "M", "N", "O", "P",
     "Q", "R", "S", "T", "U", "V", "W", "X", "Y", "Z",
     "0", "1", "2", "3", "4", "5", "6", "7", "8", "9", "_", ".", "-"}

\* urllib.quote_plus of one character
quote_plus_char(c) ==
    CASE c \in Unreserved -> <<c>>
      [] c = " " -> <<"+">>
      [] c = "&" -> <<"%", "2", "6">>
      [] c = "=" -> <<"%", "3", "D">>
      [] c = "/" -> <<"%", "2", "F">>
      [] c = "?" -> <<"%", "3", "F">>
      [] c = "," -> <<"%", "2", "C">>
      [] c = "0xC3" -> <<"%", "C", "3">>
      [] c = "0xA9" -> <<"%", "A", "9">>
      [] OTHER -> <<"%", c>>

RECURSIVE quote_plus(_)
quote_plus(s) ==
    IF s = <<>> THEN <<>> ELSE quote_plus_char(Head(s)) \o quote_plus(Tail(s))

\* urllib.urlencode of a dict, given as its items in iteration order
RECURSIVE urlencode(_)
urlencode(query) ==
    IF query = <<>> THEN <<>>
    ELSE LET kv == Head(query)
             one == quote_plus(kv[1]) \o <<"=">> \o quote_plus(PyStrOf(kv[2]))
         IN  IF Len(query) = 1 THEN one ELSE one \o <<"&">> \o urlencode(Tail(query))

BaseUrl == <<"h", "t", "t", "p", "s", ":", "/", "/", "a", "p", "i", ".", "t", "r", "e", "l", "l", "o", ".", "c", "o", "m", "/", "1">>

\* path[0:1]
FirstSlice(path) == IF Len(path) = 0 THEN <<>> ELSE <<Head(path)>>

\* TrelloClient.build_url: [exc, val]
build_url(self, path, query) ==
    LET url1 == IF FirstSlice(path) /= <<"/">> THEN BaseUrl \o <<"/">> ELSE BaseUrl
        url2 == url1 \o path
        oauth == hasattr(self, "oauth_token")
        k == IF oauth THEN self.oauth_token.key ELSE self.api_key
        t == IF oauth THEN self.oauth_consumer.key ELSE self.auth_token
        url3 == url2 \o <<"?">> \o <<"k", "e", "y", "=">> \o k.s \o <<"&", "t", "o", "k", "e", "n", "=">> \o t.s
    IN  IF ~IsString(k) \/ ~IsString(t)
        THEN [exc |-> TypeError, val |-> <<>>]
        ELSE [exc |-> NoExc,
              val |-> IF Len(query) > 0 THEN url3 \o <<"&">> \o urlencode(query) ELSE url3]

\* dict[key] = value on a dict held as a set of <<key, value>> pairs
DictSet(d, key, value) == {p \in d : p[1] /= key} \cup {<<key, value>>}
DictHas(d, key) == \E p \in d : p[1] = key

\* json.dumps of one value
json_dumps_value(v) ==
    CASE v.ty = "NoneType" -> <<"n", "u", "l", "l">>
      [] v = PyTrue -> <<"t", "r", "u", "e">>
      [] v = PyFalse -> <<"f", "a", "l", "s", "e">>
      [] IsString(v) -> <<"\"">> \o v.s \o <<"\"">>
      [] OTHER -> v.s

RECURSIVE json_dumps_items(_)
json_dumps_items(items) ==
    IF items = <<>> THEN <<>>
    ELSE LET kv == Head(items)
             one == <<"\"">> \o kv[1] \o <<"\"", ":", " ">> \o json_dumps_value(kv[2])
         IN  IF Len(items) = 1 THEN one ELSE one \o <<",", " ">> \o json_dumps_items(Tail(items))

\* json.dumps of a dict, given as its items in iteration order
json_dumps(post_args) == <<"{">> \o json_dumps_items(post_args) \o <<"}">>

\* the `headers` argument of fetch_json: the default dict, or a dict of the caller's
DefaultHeaders == [use_default |-> TRUE, d |-> {}]
OwnHeaders(d) == [use_default |-> FALSE, d |-> d]

\* a fetch_json that asks the transport a second time when the answer is not
\* 200: the retry the library does not make
fetch_json_retrying(self, dflt, uri_path, http_method, headers, query_params, post_args, resp) ==
    LET h0 == IF headers.use_default THEN dflt ELSE headers.d
        h1 == IF http_method \in {"POST", "PUT", "DELETE"}
              THEN DictSet(h0, "Content-type", "application/json")
              ELSE h0
        h2 == DictSet(h1, "Accept", "application/json")
        dflt2 == IF headers.use_default THEN h2 ELSE dflt
        url == build_url(self, uri_path, query_params)
        req == [url |-> url.val, method |-> http_method, headers |-> h2,
                body |-> json_dumps(post_args), status |-> resp.status]
    IN  IF url.exc /= NoExc
        THEN [dflt |-> dflt2, reqs |-> <<>>, exc |-> url.exc, val |-> NoContent]
        ELSE IF ~hasattr(self, "client")
        THEN [dflt |-> dflt2, reqs |-> <<>>, exc |-> AttributeError, val |-> NoContent]
        ELSE IF resp.status = 401
        THEN [dflt |-> dflt2, reqs |-> <<req, req>>, exc |-> Unauthorized(<<url.val>>),
              val |-> NoContent]
        ELSE IF resp.status /= 200
        THEN [dflt |-> dflt2, reqs |-> <<req, req>>,
              exc |-> ResourceUnavailable(<<url.val, resp>>), val |-> NoContent]
        ELSE [dflt |-> dflt2, reqs |-> <<req>>, exc |-> json_loads(resp.content).exc,
              val |-> json_loads(resp.content).val]

\* TrelloClient.fetch_json.  `dflt` is the default dict as it is when the call
\* starts and `resp` the response the transport gives if it is asked.  The
\* result: dflt (the default dict afterwards), reqs (the requests issued),
\* exc (the exception raised, NoExc if none), val (the value returned)
fetch_json(self, dflt, uri_path, http_method, headers, query_params, post_args, resp) ==
    LET h0 == IF headers.use_default THEN dflt ELSE headers.d
        h1 == IF http_method \in {"POST", "PUT", "DELETE"}
              THEN DictSet(h0, "Content-type", "application/json")
              ELSE h0
        h2 == DictSet(h1, "Accept", "application/json")
        dflt2 == IF headers.use_default THEN h2 ELSE dflt
        url == build_url(self, uri_path, query_params)
        req == [url |-> url.val, method |-> http_method, headers |-> h2,
                body |-> json_dumps(post_args), status |-> resp.status]
    IN  IF url.exc /= NoExc
        THEN [dflt |-> dflt2, reqs |-> <<>>, exc |-> url.exc, val |-> NoContent]
        ELSE IF ~hasattr(self, "client")
        THEN [dflt |-> dflt2, reqs |-> <<>>, exc |-> AttributeError, val |-> NoContent]
        ELSE IF resp.status = 401
        THEN [dflt |-> dflt2, reqs |-> <<req>>, exc |-> Unauthorized(<<url.val>>),
              val |-> NoContent]
        ELSE IF resp.status /= 200
        THEN [dflt |-> dflt2, reqs |-> <<req>>, exc |-> ResourceUnavailable(<<url.val, resp>>),
              val |-> NoContent]
        ELSE [dflt |-> dflt2, reqs |-> <<req>>, exc |-> json_loads(resp.content).exc,
              val |-> json_loads(resp.content).val]

----------------------------------------------------------------------------
(* Server responses *)

JKeys ==
    {"id", "name", "desc", "closed", "url", "idMembers", "idShort", "idList",
     "idBoard", "labels", "badges", "status", "bio", "username", "fullName",
     "initials", "date"}

\* sample resources: one all ASCII, one with non-ASCII text, one with
\* another id
Samples == {"ascii", "accented"}
MemberSamples == {"ascii", "other"}

JValue(sample, key) ==
    LET a == sample /= "accented" IN
    CASE key = "id" -> PyUnicode(IF sample = "other" THEN <<"x", "2">> ELSE <<"x", "1">>)
      [] key = "name" -> PyUnicode(IF a THEN <<"D", "e", "m", "o">> ELSE <<"c", "a", "f", EAcute>>)
      [] key = "desc" -> PyUnicode(IF a THEN <<"d">> ELSE <<EAcute>>)
      [] key = "closed" -> IF a THEN PyFalse ELSE PyTrue
      [] key = "url" -> PyUnicode(<<"h", "t", "t", "p", ":", "/", "/", "x">>)
      [] key = "idMembers" -> PyList(<<"[", "u", "\"", "m", "1", "\"", "]">>)
      [] key = "idShort" -> PyInt(<<"7">>)
      [] key = "idList" -> PyUnicode(<<"l", "9">>)
      [] key = "idBoard" -> PyUnicode(<<"b", "9">>)
      [] key = "labels" -> PyList(<<"[", "]">>)
      [] key = "badges" -> PyDict(<<"{", "}">>)
      [] key = "status" -> PyUnicode(<<"i", "d", "l", "e">>)
      [] key = "bio" -> PyUnicode(<<"b", "i", "o">>)
      [] key = "username" -> PyUnicode(IF a THEN <<"u">> ELSE <<EAcute>>)
      [] key = "fullName" -> PyUnicode(<<"F", " ", "N">>)
      [] key = "initials" -> PyUnicode(<<"F", "N">>)
      [] key = "date" -> PyUnicode(<<"2", "0", "2", "1", "-", "0", "1", "-", "0", "2", "T", "0", "3", ":", "0", "4", ":", "0", "5", ".", "1", "2", "3", "Z">>)
      [] OTHER -> Absent

\* a JSON object holding the keys `keys` of a sample
JObject(sample, keys) == [k \in JKeys |-> IF k \in keys THEN JValue(sample, k) ELSE Absent]

NoObject == [k \in JKeys |-> Absent]

\* the keys a response may lack
Lackable == {"id", "closed", "idBoard", "username", "date"}

\* the objects a resource with keys `keys` may come back as: complete, or
\* lacking up to MaxMissing of the keys
JObjects(samples, keys) ==
    {JObject(s, keys \ m) :
        s \in samples,
        m \in {x \in SUBSET (keys \cap Lackable) : Cardinality(x) <= MaxMissing}}

\* the arrays of such objects: empty, one object, or a complete object
\* followed by any object (a loop over the array stops at the first object
\* that lacks a key)
JArrays(keys) ==
    LET objs == JObjects(Samples, keys)
    IN  {<<>>} \cup {<<o>> : o \in objs} \cup {<<JObject("ascii", keys), p>> : p \in objs}

BoardKeys == {"id", "name", "desc", "closed", "url"}
ListKeys == {"id", "name", "closed", "idBoard"}
CardKeys ==
    {"id", "name", "desc", "closed", "url", "idMembers", "idShort", "idList",
     "idBoard", "labels", "badges"}
MemberKeys == {"id", "status", "bio", "url", "username", "fullName", "initials"}
ActionKeys == {"date"}

JsonObject(obj) == [kind |-> "object", items |-> <<obj>>]
JsonArray(items) == [kind |-> "array", items |-> items]

BoardDocs == {JsonObject(o) : o \in JObjects(Samples, BoardKeys)}
BoardArrayDocs == {JsonArray(a) : a \in JArrays(BoardKeys)}
ListDocs == {JsonObject(o) : o \in JObjects(Samples, ListKeys)}
ListArrayDocs == {JsonArray(a) : a \in JArrays(ListKeys)}
CardDocs == {JsonObject(o) : o \in JObjects(Samples, CardKeys)}
CardArrayDocs == {JsonArray(a) : a \in JArrays(CardKeys)}
MemberDocs == {JsonObject(o) : o \in JObjects(MemberSamples, MemberKeys)}
ActionArrayDocs ==
    {JsonArray(<<>>)} \cup {JsonArray(<<o>>) : o \in JObjects({"ascii"}, ActionKeys)}

ErrorStatuses == {401, 404}
MoreErrorStatuses == {302, 401, 404, 500}

\* what the transport may answer a request whose success carries one of `docs`
Answers(docs, statuses) ==
    {[status |-> 200, content |-> d] : d \in docs}
    \cup {[status |-> s, content |-> NoContent] : s \in statuses}

Responses(docs) == Answers(docs, ErrorStatuses)

OkDoc == JsonObject(NoObject)
BoardResponses == Responses(BoardDocs)
BoardArrayResponses == Responses(BoardArrayDocs)
ListResponses == Responses(ListDocs)
ListArrayResponses == Responses(ListArrayDocs)
CardResponses == Responses(CardDocs)
CardArrayResponses == Responses(CardArrayDocs)
MemberResponses == Responses(MemberDocs)
ActionArrayResponses == Responses(ActionArrayDocs)
PlainResponses == Responses({OkDoc})

----------------------------------------------------------------------------
(* The record of the last call *)

NoLast ==
    [op |-> "", exc |-> NoExc, reqs |-> <<>>, calls |-> 0, ret |-> NoContent,
     url |-> <<>>, path |-> <<>>, query |-> <<>>, method |-> "",
     headers |-> DefaultHeaders, content |-> NoContent, body |-> NoObject,
     arg |-> Absent, self_id |-> Absent, returned |-> 0]

Constructed == client /= NotConstructed

----------------------------------------------------------------------------
(* Entities *)

EntAttrs ==
    {"id", "name", "description", "closed", "url", "member_ids", "short_id",
     "list_id", "board_id", "labels", "badges", "status", "bio", "username",
     "full_name", "initials"}

NoAttrs == [a \in EntAttrs |-> Absent]
NoParent == [kind |-> "", id |-> Absent, client |-> ""]

\* an entity object: its class, its attributes, `actions` (the document stored
\* by fetch_actions), `client` and `parent` (the objects its client and
\* board / trello_list attributes refer to) and ctor_id, the id it was
\* constructed with
NoEntity ==
    [kind |-> "", ctor_id |-> Absent, client |-> "", parent |-> NoParent,
     attrs |-> NoAttrs, actions |-> NoContent]

\* a reference to an entity object, as another object's attribute holds it
RefTo(e) == [kind |-> e.kind, id |-> e.attrs["id"], client |-> e.client]

Board_init(client_ref, board_id, name) ==
    [kind |-> "Board", ctor_id |-> board_id, client |-> client_ref, parent |-> NoParent,
     attrs |-> [NoAttrs EXCEPT !["id"] = board_id, !["name"] = name],
     actions |-> NoContent]

List_init(board, list_id, name) ==
    [kind |-> "List", ctor_id |-> list_id, client |-> board.client, parent |-> RefTo(board),
     attrs |-> [NoAttrs EXCEPT !["id"] = list_id, !["name"] = name],
     actions |-> NoContent]

Card_init(trello_list, card_id, name) ==
    [kind |-> "Card", ctor_id |-> card_id, client |-> trello_list.client,
     parent |-> RefTo(trello_list),
     attrs |-> [NoAttrs EXCEPT !["id"] = card_id, !["name"] = name],
     actions |-> NoContent]

Member_init(client_ref, member_id) ==
    [kind |-> "Member", ctor_id |-> member_id, client |-> client_ref, parent |-> NoParent,
     attrs |-> [NoAttrs EXCEPT !["id"] = member_id],
     actions |-> NoContent]

\* one assignment `target.attr = <expression of json_obj>`; how:
\*   "index"         json_obj[key]
\*   "index_encode"  json_obj[key].encode('utf-8')
\*   "get"           json_obj.get(key, '')
\*   "get_encode"    json_obj.get(key, '').encode('utf-8')
Set(attr, key, how) == [attr |-> attr, key |-> key, how |-> how]

JsonExpr(obj, key, how) ==
    LET v == obj[key]
        got == IF v = Absent THEN PyStr(<<>>) ELSE v
    IN  CASE how = "index" ->
                 IF v = Absent THEN [exc |-> KeyError, val |-> Absent]
                 ELSE [exc |-> NoExc, val |-> v]
          [] how = "index_encode" ->
                 IF v = Absent THEN [exc |-> KeyError, val |-> Absent]
                 ELSE encode_utf8(v)
          [] how = "get" -> [exc |-> NoExc, val |-> got]
          [] OTHER -> encode_utf8(got)

\* the assignments `steps` run in order on the attributes `attrs`, up to the
\* first that raises: [attrs, exc]
RECURSIVE Assign(_, _, _)
Assign(attrs, obj, steps) ==
    IF steps = <<>> THEN [attrs |-> attrs, exc |-> NoExc]
    ELSE LET st == Head(steps)
             x == JsonExpr(obj, st.key, st.how)
         IN  IF x.exc /= NoExc THEN [attrs |-> attrs, exc |-> x.exc]
             ELSE Assign([attrs EXCEPT ![st.attr] = x.val], obj, Tail(steps))

\* the result of a method: ent (self afterwards), dflt (the default headers
\* dict afterwards), reqs (the requests issued), calls (the fetch_json calls
\* made), exc (the exception raised), out (the entities returned) and
\* bodies (the JSON object each returned entity, or self, was filled from)
Result(e, r, exc, out, bodies) ==
    [ent |-> e, dflt |-> r.dflt, reqs |-> r.reqs, calls |-> 1, exc |-> exc,
     out |-> out, bodies |-> bodies]

Failed(e, r) == Result(e, r, r.exc, <<>>, <<>>)

\* the single JSON object of a document
TheObject(doc) == doc.items[1]

----------------------------------------------------------------------------
(* Calls on the client *)

CredKeys == {PyNone, PyStr(<<>>), PyStr(<<"K">>)}
CredTokens == {PyNone, PyStr(<<>>), PyStr(<<"T">>)}
CredSecrets == {PyNone, PyStr(<<"S">>)}
CredTokenSecrets == {PyNone, PyStr(<<"T", "S">>)}

\* client = TrelloClient(api_key, token, api_secret, token_secret)
Construct ==
    /\ ~Constructed
    /\ ent = NoEntity
    /\ \E api_key \in CredKeys, token \in CredTokens, api_secret \in CredSecrets,
          token_secret \in CredTokenSecrets :
          client' = TrelloClient_init(api_key, token, api_secret, token_secret)
    /\ last' = [NoLast EXCEPT !.op = "TrelloClient.__init__"]
    /\ UNCHANGED <<default_headers, ent>>

SomePaths == {<<>>, <<"x">>, <<"/", "x">>, <<"/", "a", " ", "b", "/", "c">>}
SomeQueries ==
    {<<>>,
     <<<<<<"f", "i", "l", "t", "e", "r">>, PyStr(<<"a", " ", "b">>)>>>>,
     <<<<<<"b", "a", "d", "g", "e", "s">>, PyFalse>>, <<<<"f", "i", "l", "t", "e", "r">>, PyStr(<<"o", "p", "e", "n", ",", "c", "l", "o", "s", "e", "d">>)>>>>}

\* client.build_url(path, query)
BuildUrl ==
    /\ Constructed
    /\ \E path \in SomePaths, query \in SomeQueries :
          LET r == build_url(client, path, query)
          IN  last' = [NoLast EXCEPT !.op = "build_url", !.path = path, !.query = query,
                                     !.exc = r.exc, !.url = r.val]
    /\ UNCHANGED <<client, default_headers, ent>>

Methods == {"GET", "POST", "PUT", "DELETE"}
SomeHeaders ==
    {DefaultHeaders, OwnHeaders({}), OwnHeaders({<<"Content-type", "text/plain">>}),
     OwnHeaders({<<"X-Trace", "1">>})}
SomePostArgs == {<<>>, <<<<<<"v", "a", "l", "u", "e">>, PyStr(<<"m", "1">>)>>>>}

OneBoardDoc == JsonObject(JObject("ascii", BoardKeys))

\* client.fetch_json(path, method, headers, query, post_args), called directly
FetchJson ==
    /\ Constructed
    /\ \E path \in {<<"/", "x">>}, method \in Methods, headers \in SomeHeaders,
          query \in {<<>>}, post_args \in SomePostArgs,
          resp \in Answers({OneBoardDoc, Malformed}, MoreErrorStatuses) :
          \E r \in {fetch_json(client, default_headers, path, method, headers, query,
                              post_args, resp)} :
              /\ default_headers' = r.dflt
              /\ last' = [NoLast EXCEPT !.op = "fetch_json", !.path = path,
                                        !.query = query, !.method = method,
                                        !.headers = headers, !.content = resp.content,
                                        !.calls = 1, !.reqs = r.reqs, !.exc = r.exc,
                                        !.ret = r.val]
    /\ UNCHANGED <<client, ent>>

\* a constructor call and the assignments that follow it: `args` are the
\* evaluated arguments (raising before the object exists), `made` the new
\* object, `steps` the assignments on it
Built(args, made, obj, steps) ==
    LET more == Assign(made.attrs, obj, steps)
    IN  IF args.exc /= NoExc THEN [ent |-> NoEntity, exc |-> args.exc]
        ELSE [ent |-> [made EXCEPT !.attrs = more.attrs], exc |-> more.exc]

IdAndEncodedName == <<Set("id", "id", "index"), Set("name", "name", "index_encode")>>

\* TrelloClient._board_from_json
board_from_json(self, json) ==
    LET args == Assign(NoAttrs, json, IdAndEncodedName)
    IN  Built(args, Board_init(self, args.attrs["id"], args.attrs["name"]), json,
              <<Set("description", "desc", "get_encode"),
                Set("closed", "closed", "index"),
                Set("url", "url", "index")>>)

\* the body of the loop of Board.get_lists
list_of_board(board, obj) ==
    LET args == Assign(NoAttrs, obj, IdAndEncodedName)
    IN  Built(args, List_init(board, args.attrs["id"], args.attrs["name"]), obj,
              <<Set("closed", "closed", "index")>>)

\* the body of the loop of Board.get_cards: the Card is given the board
card_of_board(board, obj) ==
    LET args == Assign(NoAttrs, obj, IdAndEncodedName)
    IN  Built(args, Card_init(board, args.attrs["id"], args.attrs["name"]), obj,
              <<Set("closed", "closed", "index"),
                Set("member_ids", "idMembers", "index")>>)

\* the body of the loop of List.list_cards
card_of_list(trello_list, c) ==
    LET args == Assign(NoAttrs, c, IdAndEncodedName)
    IN  Built(args, Card_init(trello_list, args.attrs["id"], args.attrs["name"]), c,
              <<Set("description", "desc", "get_encode"),
                Set("closed", "closed", "index"),
                Set("url", "url", "index"),
                Set("member_ids", "idMembers", "index")>>)

\* the body of an accessor's loop: `which` names the accessor
LoopBody(which, parent, obj) ==
    CASE which = "list_boards" -> board_from_json(parent, obj)
      [] which = "get_lists" -> list_of_board(parent, obj)
      [] which = "get_cards" -> card_of_board(parent, obj)
      [] OTHER -> card_of_list(parent, obj)

\* `for obj in json_obj: ...append(<body>)`: up to the first item that raises
RECURSIVE ForEach(_, _, _)
ForEach(which, parent, items) ==
    IF items = <<>> THEN [out |-> <<>>, exc |-> NoExc]
    ELSE LET b == LoopBody(which, parent, Head(items))
             rest == ForEach(which, parent, Tail(items))
         IN  IF b.exc /= NoExc THEN [out |-> <<>>, exc |-> b.exc]
             ELSE IF rest.exc /= NoExc THEN rest
             ELSE [out |-> <<b.ent>> \o rest.out, exc |-> NoExc]

\* the entities an accessor of `self` builds from the array it fetched
Children(which, self, r) ==
    LET b == ForEach(which, self, r.val.items)
    IN  IF r.exc /= NoExc THEN Failed(self, r)
        ELSE Result(self, r, b.exc, b.out, r.val.items)

\* TrelloClient.list_boards
list_boards(self, dflt, resp) ==
    LET r == fetch_json(self, dflt, <<"/", "m", "e", "m", "b", "e", "r", "s", "/", "m", "e", "/", "b", "o", "a", "r", "d", "s", "/", "a", "l", "l">>, "GET", DefaultHeaders,
                        <<>>, <<>>, resp)
        b == ForEach("list_boards", "client", r.val.items)
    IN  IF r.exc /= NoExc THEN Failed(NoEntity, r)
        ELSE Result(NoEntity, r, b.exc, b.out, r.val.items)

\* TrelloClient.get_board
get_board(self, dflt, board_id, resp) ==
    LET r == fetch_json(self, dflt, <<"/", "b", "o", "a", "r", "d", "s", "/">> \o board_id, "GET", DefaultHeaders,
                        <<>>, <<>>, resp)
        b == board_from_json("client", TheObject(r.val))
    IN  IF r.exc /= NoExc THEN Failed(NoEntity, r)
        ELSE IF b.exc /= NoExc THEN Result(NoEntity, r, b.exc, <<>>, <<>>)
        ELSE Result(NoEntity, r, NoExc, <<b.ent>>, r.val.items)

\* the one element of a singleton set
Only(S) == CHOOSE x \in S : TRUE

\* the end of get_list: r is the outcome of the request for the list, obj its
\* document and g the outcome of get_board
list_in_board(r, obj, g) ==
    LET both == [g EXCEPT !.reqs = r.reqs \o g.reqs, !.calls = 1 + g.calls,
                          !.out = <<>>, !.bodies = <<>>]
        args == Assign(NoAttrs, obj, IdAndEncodedName)
        b == Built(args, List_init(g.out[1], args.attrs["id"], args.attrs["name"]), obj,
                   <<Set("closed", "closed", "index")>>)
    IN  IF g.exc /= NoExc THEN both
        ELSE IF b.exc /= NoExc THEN [both EXCEPT !.exc = b.exc]
        ELSE [both EXCEPT !.out = <<b.ent>>, !.bodies = r.val.items]

\* get_list once the request for the list has had the outcome r: obj['idBoard']
\* and get_board come before obj['id'] and obj['name']
list_from_document(self, r, resp_board) ==
    LET obj == TheObject(r.val)
        id_board == JsonExpr(obj, "idBoard", "index")
    IN  IF r.exc /= NoExc THEN Failed(NoEntity, r)
        ELSE IF id_board.exc /= NoExc THEN Result(NoEntity, r, id_board.exc, <<>>, <<>>)
        ELSE Only({list_in_board(r, obj, g) :
                      g \in {get_board(self, r.dflt, id_board.val.s, resp_board)}})

\* TrelloClient.get_list: the list's document, then get_board for its board
get_list(self, dflt, list_id, resp, resp_board) ==
    Only({list_from_document(self, r, resp_board) :
             r \in {fetch_json(self, dflt, <<"/", "l", "i", "s", "t", "s", "/">> \o list_id, "GET", DefaultHeaders,
                                <<>>, <<>>, resp)}})

\* the assignments of a fetch on `self`: the request, then `steps` on the object
Hydrate(self, r, steps) ==
    LET h == Assign(self.attrs, TheObject(r.val), steps)
    IN  IF r.exc /= NoExc THEN Failed(self, r)
        ELSE Result([self EXCEPT !.attrs = h.attrs], r, h.exc, <<>>, r.val.items)

\* Board.fetch
Board_fetch(self, cl, dflt, resp) ==
    Hydrate(self,
            fetch_json(cl, dflt, <<"/", "b", "o", "a", "r", "d", "s", "/">> \o self.attrs["id"].s, "GET", DefaultHeaders,
                       <<>>, <<>>, resp),
            <<Set("name", "name", "index_encode"),
              Set("description", "desc", "get"),
              Set("closed", "closed", "index"),
              Set("url", "url", "index")>>)

\* Board.get_lists; all_lists, open_lists and closed_lists pass the filter
Board_get_lists(self, cl, dflt, list_filter, resp) ==
    Children("get_lists", self,
             fetch_json(cl, dflt, <<"/", "b", "o", "a", "r", "d", "s", "/">> \o self.attrs["id"].s \o <<"/", "l", "i", "s", "t", "s">>, "GET",
                        DefaultHeaders,
                        <<<<<<"c", "a", "r", "d", "s">>, PyStr(<<"n", "o", "n", "e">>)>>, <<<<"f", "i", "l", "t", "e", "r">>, list_filter>>>>,
                        <<>>, resp))

\* Board.add_list
Board_add_list(self, cl, dflt, name, resp) ==
    LET r == fetch_json(cl, dflt, <<"/", "l", "i", "s", "t", "s">>, "POST", DefaultHeaders, <<>>,
                        <<<<<<"n", "a", "m", "e">>, name>>, <<<<"i", "d", "B", "o", "a", "r", "d">>, self.attrs["id"]>>>>,
                        resp)
        b == list_of_board(self, TheObject(r.val))
    IN  IF r.exc /= NoExc THEN Failed(self, r)
        ELSE IF b.exc /= NoExc THEN Result(self, r, b.exc, <<>>, <<>>)
        ELSE Result(self, r, NoExc, <<b.ent>>, r.val.items)

\* Board.get_cards; all_cards, open_cards and closed_cards pass the filter
Board_get_cards(self, cl, dflt, card_filter, resp) ==
    Children("get_cards", self,
             fetch_json(cl, dflt, <<"/", "b", "o", "a", "r", "d", "s", "/">> \o self.attrs["id"].s \o <<"/", "c", "a", "r", "d", "s">>, "GET",
                        DefaultHeaders, <<<<<<"f", "i", "l", "t", "e", "r">>, card_filter>>>>, <<>>, resp))

\* List.fetch
List_fetch(self, cl, dflt, resp) ==
    Hydrate(self,
            fetch_json(cl, dflt, <<"/", "l", "i", "s", "t", "s", "/">> \o self.attrs["id"].s, "GET", DefaultHeaders,
                       <<>>, <<>>, resp),
            <<Set("name", "name", "index_encode"),
              Set("closed", "closed", "index")>>)

\* List.list_cards
List_list_cards(self, cl, dflt, resp) ==
    Children("list_cards", self,
             fetch_json(cl, dflt, <<"/", "l", "i", "s", "t", "s", "/">> \o self.attrs["id"].s \o <<"/", "c", "a", "r", "d", "s">>, "GET",
                        DefaultHeaders, <<>>, <<>>, resp))

\* List.add_card
List_add_card(self, cl, dflt, name, desc, resp) ==
    LET r == fetch_json(cl, dflt, <<"/", "l", "i", "s", "t", "s", "/">> \o self.attrs["id"].s \o <<"/", "c", "a", "r", "d", "s">>, "POST",
                        DefaultHeaders, <<>>,
                        <<<<<<"n", "a", "m", "e">>, name>>, <<<<"i", "d", "L", "i", "s", "t">>, self.attrs["id"]>>,
                          <<<<"d", "e", "s", "c">>, desc>>>>,
                        resp)
        json_obj == TheObject(r.val)
        args == Assign(NoAttrs, json_obj, <<Set("id", "id", "index")>>)
        b == Built(args, Card_init(self, args.attrs["id"], PyStr(<<>>)), json_obj,
                   <<Set("name", "name", "index"),
                     Set("description", "desc", "get"),
                     Set("closed", "closed", "index"),
                     Set("url", "url", "index"),
                     Set("member_ids", "idMembers", "index")>>)
    IN  IF r.exc /= NoExc THEN Failed(self, r)
        ELSE IF b.exc /= NoExc THEN Result(self, r, b.exc, <<>>, <<>>)
        ELSE Result(self, r, NoExc, <<b.ent>>, r.val.items)

\* List.fetch_actions and Card.fetch_actions: self.actions = json_obj
StoreActions(self, r) ==
    IF r.exc /= NoExc THEN Failed(self, r)
    ELSE Result([self EXCEPT !.actions = r.val], r, NoExc, <<>>, <<>>)

\* List.fetch_actions
List_fetch_actions(self, cl, dflt, action_filter, resp) ==
    StoreActions(self,
                 fetch_json(cl, dflt, <<"/", "l", "i", "s", "t", "s", "/">> \o self.attrs["id"].s \o <<"/", "a", "c", "t", "i", "o", "n", "s">>,
                            "GET", DefaultHeaders, <<<<<<"f", "i", "l", "t", "e", "r">>, action_filter>>>>,
                            <<>>, resp))

\* Card.fetch
Card_fetch(self, cl, dflt, resp) ==
    Hydrate(self,
            fetch_json(cl, dflt, <<"/", "c", "a", "r", "d", "s", "/">> \o self.attrs["id"].s, "GET", DefaultHeaders,
                       <<<<<<"b", "a", "d", "g", "e", "s">>, PyFalse>>>>, <<>>, resp),
            <<Set("name", "name", "index_encode"),
              Set("description", "desc", "get"),
              Set("closed", "closed", "index"),
              Set("url", "url", "index"),
              Set("member_ids", "idMembers", "index"),
              Set("short_id", "idShort", "index"),
              Set("list_id", "idList", "index"),
              Set("board_id", "idBoard", "index"),
              Set("labels", "labels", "index"),
              Set("badges", "badges", "index")>>)

\* Card.fetch_actions
Card_fetch_actions(self, cl, dflt, action_filter, resp) ==
    StoreActions(self,
                 fetch_json(cl, dflt, <<"/", "c", "a", "r", "d", "s", "/">> \o self.attrs["id"].s \o <<"/", "a", "c", "t", "i", "o", "n", "s">>,
                            "GET", DefaultHeaders, <<<<<<"f", "i", "l", "t", "e", "r">>, action_filter>>>>,
                            <<>>, resp))

\* s[:-5]
DropLast5(s) == IF Len(s) <= 5 THEN <<>> ELSE SubSeq(s, 1, Len(s) - 5)

Digits == {"0", "1", "2", "3", "4", "5", "6", "7", "8", "9"}

\* whether datetime.strptime(s, '%Y-%m-%dT%H:%M:%S') accepts s (two-digit
\* fields, the form Trello sends)
IsTimestamp(s) ==
    /\ Len(s) = 19
    /\ s[5] = "-" /\ s[8] = "-" /\ s[11] = "T" /\ s[14] = ":" /\ s[17] = ":"
    /\ \A i \in (1..19) \ {5, 8, 11, 14, 17} : s[i] \in Digits

\* Card.create_date
Card_create_date(self, cl, dflt, resp) ==
    LET f == Card_fetch_actions(self, cl, dflt, PyStr(<<"c", "r", "e", "a", "t", "e", "C", "a", "r", "d">>), resp)
        acts == f.ent.actions.items
        date == JsonExpr(acts[1], "date", "index")
        date_str == DropLast5(date.val.s)
    IN  IF f.exc /= NoExc THEN f
        ELSE IF Len(acts) = 0 THEN [f EXCEPT !.exc = IndexError]
        ELSE IF date.exc /= NoExc THEN [f EXCEPT !.exc = date.exc]
        ELSE IF ~IsTimestamp(date_str) THEN [f EXCEPT !.exc = ValueError]
        ELSE f

\* Card._set_remote_attribute
Card_set_remote_attribute(self, cl, dflt, attribute, value, resp) ==
    LET r == fetch_json(cl, dflt,
                        <<"/", "c", "a", "r", "d", "s", "/">> \o self.attrs["id"].s \o <<"/">> \o attribute, "PUT",
                        DefaultHeaders, <<>>, <<<<<<"v", "a", "l", "u", "e">>, value>>>>, resp)
    IN  Result(self, r, r.exc, <<>>, <<>>)

\* a set_description that assigns the field before the remote call is made
Card_set_description_local_first(self, cl, dflt, description, resp) ==
    LET r == Card_set_remote_attribute(self, cl, dflt, <<"d", "e", "s", "c">>, description, resp)
    IN  [r EXCEPT !.ent.attrs["description"] = description]

\* Card.set_description
Card_set_description(self, cl, dflt, description, resp) ==
    LET r == Card_set_remote_attribute(self, cl, dflt, <<"d", "e", "s", "c">>, description, resp)
    IN  IF r.exc /= NoExc THEN r
        ELSE [r EXCEPT !.ent.attrs["description"] = description]

\* Card.set_closed
Card_set_closed(self, cl, dflt, closed, resp) ==
    LET r == Card_set_remote_attribute(self, cl, dflt, <<"c", "l", "o", "s", "e", "d">>, closed, resp)
    IN  IF r.exc /= NoExc THEN r
        ELSE [r EXCEPT !.ent.attrs["closed"] = closed]

\* Card.delete
Card_delete(self, cl, dflt, resp) ==
    LET r == fetch_json(cl, dflt, <<"/", "c", "a", "r", "d", "s", "/">> \o self.attrs["id"].s, "DELETE",
                        DefaultHeaders, <<>>, <<>>, resp)
    IN  Result(self, r, r.exc, <<>>, <<>>)

\* Card.assign
Card_assign(self, cl, dflt, member_id, resp) ==
    LET r == fetch_json(cl, dflt, <<"/", "c", "a", "r", "d", "s", "/">> \o self.attrs["id"].s \o <<"/", "m", "e", "m", "b", "e", "r", "s">>, "POST",
                        DefaultHeaders, <<>>, <<<<<<"v", "a", "l", "u", "e">>, member_id>>>>, resp)
    IN  Result(self, r, r.exc, <<>>, <<>>)

\* Member.fetch, which returns self
Member_fetch(self, cl, dflt, resp) ==
    LET h == Hydrate(self,
                     fetch_json(cl, dflt, <<"/", "m", "e", "m", "b", "e", "r", "s", "/">> \o self.attrs["id"].s, "GET",
                                DefaultHeaders, <<<<<<"b", "a", "d", "g", "e", "s">>, PyFalse>>>>, <<>>, resp),
                     <<Set("status", "status", "index_encode"),
                       Set("id", "id", "get"),
                       Set("bio", "bio", "get"),
                       Set("url", "url", "get"),
                       Set("username", "username", "index_encode"),
                       Set("full_name", "fullName", "index_encode"),
                       Set("initials", "initials", "index_encode")>>)
    IN  IF h.exc /= NoExc THEN h ELSE [h EXCEPT !.out = <<h.ent>>]

\* TrelloClient.get_member
get_member(self, dflt, member_id, resp) ==
    Member_fetch(Member_init("client", member_id), self, dflt, resp)

----------------------------------------------------------------------------
(* Calls on the entities *)

\* the requests of a call without their URL and body
Brief(reqs) == [i \in 1..Len(reqs) |-> [reqs[i] EXCEPT !.url = <<>>, !.body = <<>>]]

\* what a call leaves behind besides its effect on the entity held
Record(op, r, arg, body) ==
    /\ default_headers' = r.dflt
    /\ last' = [NoLast EXCEPT !.op = op, !.calls = r.calls, !.reqs = Brief(r.reqs),
                              !.exc = [r.exc EXCEPT !.msg = <<>>],
                              !.arg = arg, !.body = body,
                              !.self_id = ent.attrs["id"], !.returned = Len(r.out)]
    /\ UNCHANGED client

\* a method that works on self: the caller goes on holding self
OnSelf(op, r, arg) ==
    /\ ent' = r.ent
    /\ Record(op, r, arg,
              IF r.exc /= NoExc \/ r.bodies = <<>> THEN NoObject ELSE r.bodies[1])

\* a method that returns entities: the caller keeps one of them, and the
\* entity it held when none is returned
Returning(op, r) ==
    IF r.out = <<>>
    THEN ent' = ent /\ Record(op, r, Absent, NoObject)
    ELSE \E i \in 1..Len(r.out) :
            ent' = r.out[i] /\ Record(op, r, Absent, r.bodies[i])

Ids == {PyUnicode(<<"x", "1">>)}
Filters == {PyStr(<<"a", "l", "l">>), PyStr(<<"o", "p", "e", "n">>)}
ActionFilters == {PyStr(<<"c", "r", "e", "a", "t", "e", "C", "a", "r", "d", ",", "u", "p", "d", "a", "t", "e", "C", "a", "r", "d">>)}
NewNames == {PyStr(<<"n">>)}
NewDescs == {PyNone, PyStr(<<"d">>)}
Descriptions == {PyStr(<<"d">>)}
ClosedValues == {PyTrue, PyFalse}

\* the connection an entity method is called with: TrelloClient(api_key, token)
\* with a key and a token, or with an empty key
SomeCredentials ==
    {<<PyStr(<<"K">>), PyStr(<<"T">>), PyNone, PyNone>>,
     <<PyStr(<<>>), PyStr(<<"T">>), PyNone, PyNone>>}

Connect ==
    /\ ~Constructed
    /\ \E c \in SomeCredentials : client' = TrelloClient_init(c[1], c[2], c[3], c[4])
    /\ last' = [NoLast EXCEPT !.op = "TrelloClient.__init__"]
    /\ UNCHANGED <<default_headers, ent>>

\* the caller lets go of the entity it holds
Release ==
    /\ ent /= NoEntity
    /\ ent' = NoEntity
    /\ last' = NoLast
    /\ UNCHANGED <<client, default_headers>>

\* Board(client, board_id), List(board, list_id), Card(trello_list, card_id)
\* and Member(client, member_id), called by the user
NewBoard ==
    /\ Constructed
    /\ ent = NoEntity
    /\ \E board_id \in Ids :
          ent' = Board_init("client", board_id, PyStr(<<>>))
          /\ last' = [NoLast EXCEPT !.op = "Board.__init__"]
          /\ UNCHANGED <<client, default_headers>>

NewList ==
    /\ ent.kind = "Board"
    /\ \E list_id \in Ids :
          ent' = List_init(ent, list_id, PyStr(<<>>))
          /\ last' = [NoLast EXCEPT !.op = "List.__init__"]
          /\ UNCHANGED <<client, default_headers>>

NewCard ==
    /\ ent.kind = "List"
    /\ \E card_id \in Ids :
          ent' = Card_init(ent, card_id, PyStr(<<>>))
          /\ last' = [NoLast EXCEPT !.op = "Card.__init__"]
          /\ UNCHANGED <<client, default_headers>>

NewMember ==
    /\ Constructed
    /\ ent = NoEntity
    /\ \E member_id \in Ids :
          ent' = Member_init("client", member_id)
          /\ last' = [NoLast EXCEPT !.op = "Member.__init__"]
          /\ UNCHANGED <<client, default_headers>>

\* One action per method.  `resp` is what the transport answers if it is asked
\* and `r` the outcome of the call.

ListBoards ==
    /\ Constructed
    /\ ent = NoEntity
    /\ \E resp \in BoardArrayResponses :
       \E r \in {list_boards(client, default_headers, resp)} :
          Returning("list_boards", r)

GetBoard ==
    /\ Constructed
    /\ ent = NoEntity
    /\ \E board_id \in Ids, resp \in BoardResponses :
       \E r \in {get_board(client, default_headers, board_id.s, resp)} :
          Returning("get_board", r)

GetList ==
    /\ Constructed
    /\ ent = NoEntity
    /\ \E list_id \in Ids, resp \in ListResponses :
       \E resp_board \in IF resp.status = 200 THEN BoardResponses ELSE {resp} :
       \E r \in {get_list(client, default_headers, list_id.s, resp, resp_board)} :
          Returning("get_list", r)

GetMember ==
    /\ Constructed
    /\ ent = NoEntity
    /\ \E member_id \in Ids, resp \in MemberResponses :
       \E r \in {get_member(client, default_headers, member_id, resp)} :
          Returning("get_member", r)

BoardFetch ==
    /\ ent.kind = "Board"
    /\ \E resp \in BoardResponses :
       \E r \in {Board_fetch(ent, client, default_headers, resp)} :
          OnSelf("Board.fetch", r, Absent)

BoardGetLists ==
    /\ ent.kind = "Board"
    /\ \E list_filter \in Filters, resp \in ListArrayResponses :
       \E r \in {Board_get_lists(ent, client, default_headers, list_filter, resp)} :
          Returning("Board.get_lists", r)

BoardAddList ==
    /\ ent.kind = "Board"
    /\ \E name \in NewNames, resp \in ListResponses :
       \E r \in {Board_add_list(ent, client, default_headers, name, resp)} :
          Returning("Board.add_list", r)

BoardGetCards ==
    /\ ent.kind = "Board"
    /\ \E card_filter \in Filters, resp \in CardArrayResponses :
       \E r \in {Board_get_cards(ent, client, default_headers, card_filter, resp)} :
          Returning("Board.get_cards", r)

ListFetch ==
    /\ ent.kind = "List"
    /\ \E resp \in ListResponses :
       \E r \in {List_fetch(ent, client, default_headers, resp)} :
          OnSelf("List.fetch", r, Absent)

ListListCards ==
    /\ ent.kind = "List"
    /\ \E resp \in CardArrayResponses :
       \E r \in {List_list_cards(ent, client, default_headers, resp)} :
          Returning("List.list_cards", r)

ListAddCard ==
    /\ ent.kind = "List"
    /\ \E name \in NewNames, desc \in NewDescs, resp \in CardResponses :
       \E r \in {List_add_card(ent, client, default_headers, name, desc, resp)} :
          Returning("List.add_card", r)

ListFetchActions ==
    /\ ent.kind = "List"
    /\ \E action_filter \in ActionFilters, resp \in ActionArrayResponses :
       \E r \in {List_fetch_actions(ent, client, default_headers, action_filter, resp)} :
          OnSelf("List.fetch_actions", r, Absent)

CardFetch ==
    /\ ent.kind = "Card"
    /\ \E resp \in CardResponses :
       \E r \in {Card_fetch(ent, client, default_headers, resp)} :
          OnSelf("Card.fetch", r, Absent)

CardFetchActions ==
    /\ ent.kind = "Card"
    /\ \E action_filter \in ActionFilters, resp \in ActionArrayResponses :
       \E r \in {Card_fetch_actions(ent, client, default_headers, action_filter, resp)} :
          OnSelf("Card.fetch_actions", r, Absent)

CardCreateDate ==
    /\ ent.kind = "Card"
    /\ \E resp \in ActionArrayResponses :
       \E r \in {Card_create_date(ent, client, default_headers, resp)} :
          OnSelf("Card.create_date", r, Absent)

CardSetDescription ==
    /\ ent.kind = "Card"
    /\ \E description \in Descriptions, resp \in PlainResponses :
       \E r \in {Card_set_description(ent, client, default_headers, description, resp)} :
          OnSelf("Card.set_description", r, description)

CardSetClosed ==
    /\ ent.kind = "Card"
    /\ \E closed \in ClosedValues, resp \in PlainResponses :
       \E r \in {Card_set_closed(ent, client, default_headers, closed, resp)} :
          OnSelf("Card.set_closed", r, closed)

CardDelete ==
    /\ ent.kind = "Card"
    /\ \E resp \in PlainResponses :
       \E r \in {Card_delete(ent, client, default_headers, resp)} :
          OnSelf("Card.delete", r, Absent)

CardAssign ==
    /\ ent.kind = "Card"
    /\ \E member_id \in Ids, resp \in PlainResponses :
       \E r \in {Card_assign(ent, client, default_headers, member_id, resp)} :
          OnSelf("Card.assign", r, member_id)

MemberFetch ==
    /\ ent.kind = "Member"
    /\ \E resp \in MemberResponses :
       \E r \in {Member_fetch(ent, client, default_headers, resp)} :
          OnSelf("Member.fetch", r, Absent)
Init ==
    /\ client = NotConstructed
    /\ default_headers = {}
    /\ ent = NoEntity
    /\ last = NoLast

NextClient ==
    \/ Construct
    \/ BuildUrl
    \/ FetchJson

\* the transport alone: construction, build_url and direct fetch_json calls
SpecClient == Init /\ [][NextClient]_vars

Next ==
    \/ Connect \/ Release
    \/ NewBoard \/ NewList \/ NewCard \/ NewMember
    \/ ListBoards \/ GetBoard \/ GetList \/ GetMember
    \/ BoardFetch \/ BoardGetLists \/ BoardAddList \/ BoardGetCards
    \/ ListFetch \/ ListListCards \/ ListAddCard \/ ListFetchActions
    \/ CardFetch \/ CardFetchActions \/ CardCreateDate
    \/ CardSetDescription \/ CardSetClosed \/ CardDelete \/ CardAssign
    \/ MemberFetch

\* the library as a caller uses it
Spec == Init /\ [][Next]_vars


----------------------------------------------------------------------------
(* Properties of the transport, stated of SpecClient *)

\* C1: a fetch_json call that reached the transport and was answered with a
\* JSON body returns the decoded body if and only if the status is 200; on
\* status 401 it raises Unauthorized carrying the request URL; on any other
\* status but 200 it raises ResourceUnavailable carrying that status.
C1_StatusDecidesOutcome ==
    (last.op = "fetch_json" /\ Len(last.reqs) = 1 /\ last.content /= Malformed) =>
        LET status == last.reqs[1].status
        IN  /\ (last.exc = NoExc /\ last.ret = last.content) <=> (status = 200)
            /\ (status = 401) =>
                   (last.exc.type = "Unauthorized" /\ last.exc.msg = last.reqs[1].url)
            /\ (status \notin {200, 401}) =>
                   (last.exc.type = "ResourceUnavailable" /\ last.exc.status = status)

\* the path of build_url's result: `path`, with '/' put first if it does not
\* start with one
WithLeadingSlash(path) == IF FirstSlice(path) = <<"/">> THEN path ELSE <<"/">> \o path

\* C3: in both authentication modes build_url returns the base URL, the path
\* normalised to start with '/', '?key=' and the client's API key, '&token='
\* and the client's token and, for a non-empty query only, '&' and the
\* urlencoded query.
C3_UrlCarriesKeyThenToken ==
    (last.op = "build_url" /\ hasattr(client, "client")) =>
        /\ last.exc = NoExc
        /\ last.url = BaseUrl \o WithLeadingSlash(last.path)
                        \o <<"?", "k", "e", "y", "=">> \o client.api_key.s
                        \o <<"&", "t", "o", "k", "e", "n", "=">> \o client.auth_token.s
                        \o (IF last.query = <<>> THEN <<>>
                            ELSE <<"&">> \o urlencode(last.query))

\* C4: no TrelloClient object exists without a transport (a `client`
\* attribute), and no fetch_json call fails for the lack of one.
C4_NoClientWithoutTransport ==
    /\ Constructed => hasattr(client, "client")
    /\ (last.op = "fetch_json") => (last.exc /= AttributeError)

\* C8: the headers of a request depend on the arguments of its call alone:
\* Accept is application/json, and Content-type is present if and only if the
\* method is POST, PUT or DELETE or the caller passed a Content-type header.
C8_HeadersFromArgumentsOnly ==
    (last.op = "fetch_json" /\ Len(last.reqs) = 1) =>
        LET sent == last.reqs[1].headers
        IN  /\ <<"Accept", "application/json">> \in sent
            /\ DictHas(sent, "Content-type") <=>
                   \/ last.method \in {"POST", "PUT", "DELETE"}
                   \/ DictHas(last.headers.d, "Content-type")

----------------------------------------------------------------------------
(* Properties of the entities, stated of Spec *)

SetOps == {"Card.set_description", "Card.set_closed"}
FetchOps == {"Board.fetch", "List.fetch", "Card.fetch", "Member.fetch"}
RemoteOps ==
    {"list_boards", "get_board", "get_list", "get_member",
     "Board.fetch", "Board.get_lists", "Board.add_list", "Board.get_cards",
     "List.fetch", "List.list_cards", "List.add_card", "List.fetch_actions",
     "Card.fetch", "Card.fetch_actions", "Card.create_date", "Card.set_description",
     "Card.set_closed", "Card.delete", "Card.assign", "Member.fetch"}

\* the attribute a setter writes
FieldOf(op) == IF op = "Card.set_description" THEN "description" ELSE "closed"

\* C2: a set_description(v) or set_closed(v) whose PUT is answered with a
\* status other than 200 raises; a call that raises leaves the field at its
\* pre-call value; a call whose PUT is answered 200 returns, and a call that
\* returns leaves the field equal to v.
C2_SetterWritesOnlyOnSuccess ==
    [][(last'.op \in SetOps) =>
          LET field == FieldOf(last'.op)
              answered == Len(last'.reqs) = 1
          IN  /\ (answered /\ last'.reqs[1].status /= 200) => (last'.exc /= NoExc)
              /\ (answered /\ last'.reqs[1].status = 200) => (last'.exc = NoExc)
              /\ (last'.exc /= NoExc) => (ent'.attrs[field] = ent.attrs[field])
              /\ (last'.exc = NoExc) => (ent'.attrs[field] = last'.arg)]_vars

\* a set_description(v) whose PUT was refused, on a card whose description
\* holds another value than v
C2_RefusedWriteReached ==
    /\ last.op = "Card.set_description"
    /\ Len(last.reqs) = 1 /\ last.reqs[1].status /= 200
    /\ last.exc /= NoExc
    /\ ent.attrs["description"] \notin {Absent, last.arg}

\* C5: the id attribute of the entity held is the id it was constructed with.
C5_IdNeverChanges ==
    (ent /= NoEntity) => (ent.attrs["id"] = ent.ctor_id)

\* C6: every call of a fetching or mutating operation issues exactly one
\* request.
C6_ExactlyOneRequest ==
    (last.op \in RemoteOps) => (Len(last.reqs) = 1)

\* C6 as the code has it: a call issues at most one request, and exactly one
\* when the client has a transport, except get_list, which issues a second
\* request (for the board) once its first is answered 200 with a document
\* naming the board; every request but the last of a call was answered 200, so
\* none is a retry; each fetch_json call issues at most one request.
C6_OneRequestPerFetchJson ==
    (last.op \in RemoteOps) =>
        /\ last.calls = (IF last.op = "get_list" /\ Len(last.reqs) = 2 THEN 2 ELSE 1)
        /\ Len(last.reqs) <= last.calls
        /\ hasattr(client, "client") => (Len(last.reqs) >= 1)
        /\ (last.op /= "get_list") => (Len(last.reqs) <= 1)
        /\ (last.op = "get_list" /\ last.exc = NoExc) => (Len(last.reqs) = 2)
        /\ \A i \in 1..(Len(last.reqs) - 1) : last.reqs[i].status = 200

\* a get_list that issued its two requests, the second of them refused
C6_TwoRequestsReached ==
    /\ last.op = "get_list"
    /\ Len(last.reqs) = 2
    /\ last.reqs[2].status /= 200

\* C7: a fetch() answered with the JSON object the entity was last filled from
\* (by the accessor that built it, or by the previous fetch()) leaves every
\* populated field equal (Python ==) to the value it had.
C7_HydrationIdempotent ==
    [][(/\ last'.op \in {"Board.fetch", "List.fetch", "Card.fetch"}
        /\ last'.exc = NoExc
        /\ last.exc = NoExc
        /\ last.body /= NoObject
        /\ last'.body = last.body) =>
          \A a \in EntAttrs :
              (ent.attrs[a] /= Absent) => PyEq(ent'.attrs[a], ent.attrs[a])]_vars

\* C9: a fetch() that raises leaves every attribute of the entity at its
\* pre-call value.
C9_FailedFetchChangesNothing ==
    [][(last'.op \in FetchOps /\ last'.exc /= NoExc) => (ent' = ent)]_vars

\* C10: a Card returned by an accessor refers to a List as its trello_list and
\* has that List's client; a List returned by an accessor of a Board refers to
\* that Board as its board and has its client.
C10_BackReferences ==
    /\ (last.op \in {"Board.get_cards", "List.list_cards", "List.add_card"}
        /\ last.returned > 0) =>
           /\ ent.kind = "Card"
           /\ ent.parent.kind = "List"
           /\ ent.client = ent.parent.client
    /\ (last.op \in {"Board.get_lists", "Board.add_list"} /\ last.returned > 0) =>
           /\ ent.kind = "List"
           /\ ent.parent.kind = "Board"
           /\ ent.parent.id = last.self_id
           /\ ent.client = ent.parent.client
====
